---------------------------- MODULE Spec2Model ----------------------------
(***************************************************************************)
(* A model of facefusion/filesystem.py: the retry wrapper _error_handler,  *)
(* the path predicates, the media classification and its batch helpers,    *)
(* the mutating operations and the directory / glob resolution.            *)
(*                                                                         *)
(* Python strings are sequences of one-character strings, so that          *)
(* splitext, lower, lstrip, startswith, dirname, join and sorted are       *)
(* computed character by character as the library computes them.  A Python *)
(* call returns Return(v) or Raise(e).                                     *)
(***************************************************************************)
EXTENDS Naturals, Sequences, FiniteSets

VARIABLES
    fs,       \* the host filesystem: path -> "none" | "file" | "dir"
    choices,  \* facefusion.choices: audio_formats, image_formats, video_formats
    pre,      \* the filesystem as it was when the last call started
    call,     \* the last call of the module's surface: [op, args]
    ret,      \* what that call returned or raised
    os,       \* the OS primitives that call invoked, in order, each with its outcome
    prev,     \* the call before the last one and its result, kept when the last call repeats it
    eh,       \* one run of _error_handler over an arbitrary operation
    th        \* threads inside create_directory

vars == <<fs, choices, pre, call, ret, os, prev, eh, th>>

-----------------------------------------------------------------------------
(* Python values *)

None == <<"None">>

Return(v) == [raised |-> FALSE, value |-> v]

Raise(e) == [raised |-> TRUE, value |-> e]

Range(s) == {s[i] : i \in DOMAIN s}

-----------------------------------------------------------------------------
(* str: code points, lower, comparison, sorted *)

AsciiFrom42 == <<"*", "+", ",", "-", ".", "/", "0", "1", "2", "3", "4", "5", "6", "7", "8", "9">>

AsciiFrom65 == <<"A", "B", "C", "D", "E", "F", "G", "H", "I", "J", "K", "L", "M",
                 "N", "O", "P", "Q", "R", "S", "T", "U", "V", "W", "X", "Y", "Z">>

AsciiFrom95 == <<"_">>

AsciiFrom97 == <<"a", "b", "c", "d", "e", "f", "g", "h", "i", "j", "k", "l", "m",
                 "n", "o", "p", "q", "r", "s", "t", "u", "v", "w", "x", "y", "z">>

IndexOf(table, c) == CHOOSE i \in DOMAIN table : table[i] = c

Chars == Range(AsciiFrom42) \cup Range(AsciiFrom65) \cup Range(AsciiFrom95) \cup Range(AsciiFrom97)

CodePoint ==
    [c \in Chars |->
        IF c \in Range(AsciiFrom42) THEN 41 + IndexOf(AsciiFrom42, c)
        ELSE IF c \in Range(AsciiFrom65) THEN 64 + IndexOf(AsciiFrom65, c)
        ELSE IF c \in Range(AsciiFrom95) THEN 94 + IndexOf(AsciiFrom95, c)
        ELSE 96 + IndexOf(AsciiFrom97, c)]

ord(c) == CodePoint[c]

LowerCase ==
    [c \in Chars |-> IF c \in Range(AsciiFrom65) THEN AsciiFrom97[IndexOf(AsciiFrom65, c)] ELSE c]

lower_char(c) == LowerCase[c]

lower(s) == [i \in DOMAIN s |-> lower_char(s[i])]

RECURSIVE str_lt(_, _)
str_lt(s, t) ==
    IF t = <<>> THEN FALSE
    ELSE IF s = <<>> THEN TRUE
    ELSE IF ord(Head(s)) # ord(Head(t)) THEN ord(Head(s)) < ord(Head(t))
    ELSE str_lt(Tail(s), Tail(t))

RECURSIVE insort(_, _)
insort(sortedSeq, x) ==
    IF sortedSeq = <<>> THEN <<x>>
    ELSE IF str_lt(x, Head(sortedSeq)) THEN <<x>> \o sortedSeq
    ELSE <<Head(sortedSeq)>> \o insort(Tail(sortedSeq), x)

RECURSIVE sorted(_)
sorted(s) == IF s = <<>> THEN <<>> ELSE insort(sorted(SubSeq(s, 1, Len(s) - 1)), s[Len(s)])

startswith(s, prefix) == Len(s) >= Len(prefix) /\ SubSeq(s, 1, Len(prefix)) = prefix

RECURSIVE lstrip(_, _)
lstrip(s, c) == IF s # <<>> /\ Head(s) = c THEN lstrip(Tail(s), c) ELSE s

RECURSIVE rstrip(_, _)
rstrip(s, c) == IF s # <<>> /\ s[Len(s)] = c THEN rstrip(SubSeq(s, 1, Len(s) - 1), c) ELSE s

\* str.rfind, 1-based: the last position of c in s, 0 when there is none.
rfind(s, c) ==
    IF \E i \in DOMAIN s : s[i] = c
    THEN CHOOSE i \in DOMAIN s : s[i] = c /\ \A j \in DOMAIN s : s[j] = c => j <= i
    ELSE 0

-----------------------------------------------------------------------------
(* posixpath *)

split(p) ==
    LET i    == rfind(p, "/")
        head == SubSeq(p, 1, i)
        tail == SubSeq(p, i + 1, Len(p))
    IN  <<IF head # <<>> /\ rstrip(head, "/") # <<>> THEN rstrip(head, "/") ELSE head, tail>>

dirname(p) == split(p)[1]

basename(p) == split(p)[2]

join(a, b) ==
    IF startswith(b, <<"/">>) THEN b
    ELSE IF a = <<>> \/ a[Len(a)] = "/" THEN a \o b
    ELSE a \o <<"/">> \o b

splitext(p) ==
    LET sepIndex == rfind(p, "/")
        dotIndex == rfind(p, ".")
    IN  IF dotIndex > sepIndex /\ \E k \in (sepIndex + 1)..(dotIndex - 1) : p[k] # "."
        THEN <<SubSeq(p, 1, dotIndex - 1), SubSeq(p, dotIndex, Len(p))>>
        ELSE <<p, <<>>>>

-----------------------------------------------------------------------------
(* The filesystem as the os.path predicates see it *)

Kind(fsx, p) == IF p \in DOMAIN fsx THEN fsx[p] ELSE "none"

is_file(fsx, file_path) == file_path # <<>> /\ Kind(fsx, file_path) = "file"

is_directory(fsx, directory_path) == directory_path # <<>> /\ Kind(fsx, directory_path) = "dir"

-----------------------------------------------------------------------------
(* Metadata extraction *)

get_file_extension(file_path) ==
    LET extension == splitext(file_path)[2]
    IN  IF extension # <<>> THEN lower(extension) ELSE None

get_file_format(file_path) ==
    LET extension == get_file_extension(file_path)
    IN  IF extension = None THEN None
        ELSE IF extension = <<".", "j", "p", "g">> THEN <<"j", "p", "e", "g">>
        ELSE IF extension = <<".", "t", "i", "f">> THEN <<"t", "i", "f", "f">>
        ELSE lstrip(extension, ".")

-----------------------------------------------------------------------------
(* Media classification *)

\* _is_media_type deciding by the name alone.
_is_media_type_NameOnly(fsx, path, formats) == get_file_format(path) \in Range(formats)

_is_media_type(fsx, path, formats) ==
    is_file(fsx, path) /\ get_file_format(path) \in Range(formats)

is_audio(fsx, ch, audio_path) == _is_media_type(fsx, audio_path, ch.audio_formats)

is_image(fsx, ch, image_path) == _is_media_type(fsx, image_path, ch.image_formats)

is_video(fsx, ch, video_path) == _is_media_type(fsx, video_path, ch.video_formats)

has_audio(fsx, ch, audio_paths) ==
    Return(IF audio_paths # <<>>
           THEN \E i \in DOMAIN audio_paths : is_audio(fsx, ch, audio_paths[i])
           ELSE FALSE)

are_audios(fsx, ch, audio_paths) ==
    Return(IF audio_paths # <<>>
           THEN \A i \in DOMAIN audio_paths : is_audio(fsx, ch, audio_paths[i])
           ELSE FALSE)

has_image(fsx, ch, image_paths) ==
    Return(IF image_paths # <<>>
           THEN \E i \in DOMAIN image_paths : is_image(fsx, ch, image_paths[i])
           ELSE FALSE)

\* The condition reads audio_paths, a name bound neither in the function nor in
\* the module: evaluating it raises NameError before anything else is looked at.
are_images(fsx, ch, image_paths) == Raise("NameError")

has_video(fsx, ch, video_paths) ==
    Return(IF video_paths # <<>>
           THEN \E i \in DOMAIN video_paths : is_video(fsx, ch, video_paths[i])
           ELSE FALSE)

are_videos(fsx, ch, video_paths) ==
    Return(IF video_paths # <<>>
           THEN \A i \in DOMAIN video_paths : is_video(fsx, ch, video_paths[i])
           ELSE FALSE)

RECURSIVE filter_audio(_, _, _)
filter_audio(fsx, ch, paths) ==
    IF paths = <<>> THEN <<>>
    ELSE (IF is_audio(fsx, ch, Head(paths)) THEN <<Head(paths)>> ELSE <<>>)
         \o filter_audio(fsx, ch, Tail(paths))

filter_audio_paths(fsx, ch, paths) ==
    Return(IF paths # <<>> THEN filter_audio(fsx, ch, paths) ELSE <<>>)

RECURSIVE filter_image(_, _, _)
filter_image(fsx, ch, paths) ==
    IF paths = <<>> THEN <<>>
    ELSE (IF is_image(fsx, ch, Head(paths)) THEN <<Head(paths)>> ELSE <<>>)
         \o filter_image(fsx, ch, Tail(paths))

filter_image_paths(fsx, ch, paths) ==
    Return(IF paths # <<>> THEN filter_image(fsx, ch, paths) ELSE <<>>)

-----------------------------------------------------------------------------
(* Values of the variables a specification does not use *)

NoCall == [op |-> "none", args |-> <<>>]

NoPrev == [op |-> "none", args |-> <<>>, ret |-> Return(None)]

EhIdle == [pc |-> "idle", retries |-> 0, attempt |-> 0, history |-> <<>>,
           trace |-> <<>>, log |-> <<>>, slept |-> 0, result |-> Return(None)]

NoChoices == [audio_formats |-> <<>>, image_formats |-> <<>>, video_formats |-> <<>>]

EmptyFs == [p \in {} |-> "none"]

-----------------------------------------------------------------------------
(* Media classification and the batch helpers over lists of paths *)

MaxPaths == 2

a_jpg == <<"a", ".", "j", "p", "g">>

b_JPG == <<"b", ".", "J", "P", "G">>

c_tif == <<"c", ".", "t", "i", "f">>

d_png == <<"d", ".", "p", "n", "g">>

e_mp3 == <<"e", ".", "m", "p", "3">>

f_mp4 == <<"f", ".", "m", "p", "4">>

g_txt == <<"g", ".", "t", "x", "t">>

n_png == <<"n", ".", "p", "n", "g">>

dot_jpg == <<".", "j", "p", "g">>

\* Regular files of every kind of name, one directory and one missing path that
\* both carry an image extension.
MediaFs ==
    [p \in {a_jpg, b_JPG, c_tif, e_mp3, f_mp4, g_txt, dot_jpg, d_png, n_png} |->
        IF p = d_png THEN "dir" ELSE IF p = n_png THEN "none" ELSE "file"]

MediaInputs == DOMAIN MediaFs \cup {<<>>}

PathLists == UNION {[1..k -> MediaInputs] : k \in 0..MaxPaths}

jpeg == <<"j", "p", "e", "g">>

png == <<"p", "n", "g">>

tiff == <<"t", "i", "f", "f">>

mp3 == <<"m", "p", "3">>

mp4 == <<"m", "p", "4">>

\* Configurations of facefusion.choices: lists of bare lower-case formats.
ChoicesConfigs ==
    { [audio_formats |-> <<mp3>>, image_formats |-> <<jpeg, png, tiff>>, video_formats |-> <<mp4>>],
      [audio_formats |-> <<mp3, <<"t", "x", "t">>>>, image_formats |-> <<<<"j", "p", "g">>, png>>,
       video_formats |-> <<>>] }

InitMedia ==
    /\ fs = MediaFs
    /\ choices \in ChoicesConfigs
    /\ pre = fs
    /\ call = NoCall
    /\ ret = Return(None)
    /\ os = <<>>
    /\ prev = NoPrev
    /\ eh = EhIdle
    /\ th = <<>>

\* One call of a read-only function of the surface on a fresh input.
Query(op, args, result) ==
    /\ call = NoCall
    /\ call' = [op |-> op, args |-> args]
    /\ ret' = result
    /\ pre' = fs
    /\ os' = <<>>
    /\ UNCHANGED <<fs, choices, prev, eh, th>>

HasAudio == \E paths \in PathLists : Query("has_audio", <<paths>>, has_audio(fs, choices, paths))

AreAudios == \E paths \in PathLists : Query("are_audios", <<paths>>, are_audios(fs, choices, paths))

HasImage == \E paths \in PathLists : Query("has_image", <<paths>>, has_image(fs, choices, paths))

AreImages == \E paths \in PathLists : Query("are_images", <<paths>>, are_images(fs, choices, paths))

HasVideo == \E paths \in PathLists : Query("has_video", <<paths>>, has_video(fs, choices, paths))

AreVideos == \E paths \in PathLists : Query("are_videos", <<paths>>, are_videos(fs, choices, paths))

FilterAudioPaths ==
    \E paths \in PathLists :
        Query("filter_audio_paths", <<paths>>, filter_audio_paths(fs, choices, paths))

FilterImagePaths ==
    \E paths \in PathLists :
        Query("filter_image_paths", <<paths>>, filter_image_paths(fs, choices, paths))

NextMedia ==
    \/ HasAudio
    \/ AreAudios
    \/ HasImage
    \/ AreImages
    \/ HasVideo
    \/ AreVideos
    \/ FilterAudioPaths
    \/ FilterImagePaths

SpecMedia == InitMedia /\ [][NextMedia]_vars

-----------------------------------------------------------------------------
(* The retry wrapper *)

DefaultRetries == 3

DefaultDelay == 1

MaxRetries == 4

Values == {<<"v", "1">>, <<"v", "2">>}

Exceptions == {"OSError", "PermissionError"}

\* What one invocation of the wrapped operation can do: return a value or raise.
Outcomes == [ok : {TRUE}, value : Values] \cup [ok : {FALSE}, value : Exceptions]

LogEntry(kind, attempt, retries) ==
    [level |-> "debug", kind |-> kind, attempt |-> attempt + 1, retries |-> retries]

\* Attempt with the last pass taken for one more of the retried ones.
Attempt_RetriesOffByOne(attempt, retries, delay, outcome) ==
    IF outcome.ok
    THEN [trace  |-> <<"call">> \o (IF attempt > 0 THEN <<"log_success">> ELSE <<>>) \o <<"return">>,
          log    |-> IF attempt > 0 THEN <<LogEntry("success", attempt, retries)>> ELSE <<>>,
          slept  |-> 0,
          pc     |-> "returned",
          result |-> Return(outcome.value)]
    ELSE IF attempt < retries
    THEN [trace  |-> <<"call", "log_error", "sleep">>,
          log    |-> <<LogEntry("error", attempt, retries)>>,
          slept  |-> delay,
          pc     |-> "loop",
          result |-> Return(None)]
    ELSE [trace  |-> <<"call", "log_error", "raise">>,
          log    |-> <<LogEntry("error", attempt, retries)>>,
          slept  |-> 0,
          pc     |-> "raised",
          result |-> Raise(outcome.value)]

\* Attempt with the success entry logged on the first attempt too.
Attempt_LogsFirstSuccess(attempt, retries, delay, outcome) ==
    IF outcome.ok
    THEN [trace  |-> <<"call", "log_success", "return">>,
          log    |-> <<LogEntry("success", attempt, retries)>>,
          slept  |-> 0,
          pc     |-> "returned",
          result |-> Return(outcome.value)]
    ELSE IF attempt < retries - 1
    THEN [trace  |-> <<"call", "log_error", "sleep">>,
          log    |-> <<LogEntry("error", attempt, retries)>>,
          slept  |-> delay,
          pc     |-> "loop",
          result |-> Return(None)]
    ELSE [trace  |-> <<"call", "log_error", "raise">>,
          log    |-> <<LogEntry("error", attempt, retries)>>,
          slept  |-> 0,
          pc     |-> "raised",
          result |-> Raise(outcome.value)]

\* One pass through the body of the for loop at the 0-based `attempt`, the
\* operation's invocation ending in `outcome`: the events in program order, the
\* log entries, and where control goes.
Attempt(attempt, retries, delay, outcome) ==
    IF outcome.ok
    THEN [trace  |-> <<"call">> \o (IF attempt > 0 THEN <<"log_success">> ELSE <<>>) \o <<"return">>,
          log    |-> IF attempt > 0 THEN <<LogEntry("success", attempt, retries)>> ELSE <<>>,
          slept  |-> 0,
          pc     |-> "returned",
          result |-> Return(outcome.value)]
    ELSE IF attempt < retries - 1
    THEN [trace  |-> <<"call", "log_error", "sleep">>,
          log    |-> <<LogEntry("error", attempt, retries)>>,
          slept  |-> delay,
          pc     |-> "loop",
          result |-> Return(None)]
    ELSE [trace  |-> <<"call", "log_error", "raise">>,
          log    |-> <<LogEntry("error", attempt, retries)>>,
          slept  |-> 0,
          pc     |-> "raised",
          result |-> Raise(outcome.value)]

\* The whole loop from `attempt` on, the i-th invocation ending in outcomes[i]:
\* the result and the number of invocations made.  Falling out of the loop
\* (range(retries) exhausted without return or raise) returns None.
RECURSIVE _error_handler(_, _, _)
_error_handler(attempt, retries, outcomes) ==
    IF attempt >= retries THEN [result |-> Return(None), calls |-> 0]
    ELSE LET step == Attempt(attempt, retries, DefaultDelay, outcomes[attempt + 1])
             rest == _error_handler(attempt + 1, retries, outcomes)
         IN  IF step.pc = "loop"
             THEN [result |-> rest.result, calls |-> 1 + rest.calls]
             ELSE [result |-> step.result, calls |-> 1]

\* The outcomes of the invocations of an OS primitive through the wrapper: the
\* first `faults` invocations fail, every later one ends in `outcome`.
FaultyOutcomes(faults, outcome) ==
    [i \in 1..DefaultRetries |-> IF i <= faults THEN [ok |-> FALSE, value |-> "OSError"] ELSE outcome]

\* The record of the first n invocations of the primitive.
Invocations(prim, args, outcomes, n) ==
    [i \in 1..n |-> [prim |-> prim, args |-> args, ok |-> outcomes[i].ok, value |-> outcomes[i].value]]

InitRetry ==
    /\ fs = EmptyFs
    /\ choices = NoChoices
    /\ pre = fs
    /\ call = NoCall
    /\ ret = Return(None)
    /\ os = <<>>
    /\ prev = NoPrev
    /\ th = <<>>
    /\ \E retries \in 0..MaxRetries :
            eh = [pc |-> "loop", retries |-> retries, attempt |-> 0, history |-> <<>>,
                  trace |-> <<>>, log |-> <<>>, slept |-> 0, result |-> Return(None)]

EhAttempt(outcome) ==
    /\ eh.pc = "loop"
    /\ eh.attempt < eh.retries
    /\ LET step == Attempt(eh.attempt, eh.retries, DefaultDelay, outcome)
       IN  eh' = [pc      |-> step.pc,
                  retries |-> eh.retries,
                  attempt |-> IF step.pc = "loop" THEN eh.attempt + 1 ELSE eh.attempt,
                  history |-> Append(eh.history, outcome),
                  trace   |-> eh.trace \o step.trace,
                  log     |-> eh.log \o step.log,
                  slept   |-> eh.slept + step.slept,
                  result  |-> step.result]
    /\ UNCHANGED <<fs, choices, pre, call, ret, os, prev, th>>

\* func returns
EhCallReturns == \E v \in Values : EhAttempt([ok |-> TRUE, value |-> v])

\* func raises
EhCallRaises == \E e \in Exceptions : EhAttempt([ok |-> FALSE, value |-> e])

\* range(retries) is exhausted: the function ends without a return statement
EhRangeExhausted ==
    /\ eh.pc = "loop"
    /\ eh.attempt >= eh.retries
    /\ eh' = [eh EXCEPT !.pc = "returned", !.result = Return(None)]
    /\ UNCHANGED <<fs, choices, pre, call, ret, os, prev, th>>

NextRetry ==
    \/ EhCallReturns
    \/ EhCallRaises
    \/ EhRangeExhausted

SpecRetry == InitRetry /\ [][NextRetry]_vars

Failed(h) == {i \in DOMAIN h : ~h[i].ok}

Count(seq, x) == Cardinality({i \in DOMAIN seq : seq[i] = x})

LogCount(log, kind) == Cardinality({i \in DOMAIN log : log[i].kind = kind})

\* C1: with a maximum attempt count N >= 1 the operation is invoked at least
\* once and at most N times; the first invocation that succeeds is the last one
\* made and its result is what the wrapper returns; if all N invocations fail,
\* the wrapper does not return: it raises the failure of the N-th invocation.
C1_RetryContract ==
    (eh.pc # "idle" /\ eh.retries >= 1) =>
        LET h == eh.history
            N == eh.retries
        IN  /\ Len(h) <= N
            /\ eh.pc \in {"returned", "raised"} => Len(h) >= 1
            /\ \A i \in DOMAIN h :
                    h[i].ok => /\ i = Len(h)
                               /\ eh.pc = "returned"
                               /\ ~eh.result.raised
                               /\ eh.result.value = h[i].value
            /\ eh.pc = "returned" => h # <<>> /\ h[Len(h)].ok
            /\ (Len(h) = N /\ Failed(h) = DOMAIN h) =>
                    /\ eh.pc = "raised"
                    /\ eh.result.raised
                    /\ eh.result.value = h[N].value
            /\ eh.pc = "raised" => Len(h) = N /\ Failed(h) = DOMAIN h

\* All of the default three attempts failed and the third failure was raised.
C1_Witness ==
    /\ eh.pc = "raised"
    /\ eh.retries = DefaultRetries
    /\ Len(eh.history) = DefaultRetries
    /\ eh.history[1].value # eh.history[DefaultRetries].value
    /\ eh.result = Raise(eh.history[DefaultRetries].value)

\* C10: with N >= 1 there is exactly one error log entry per failed attempt
\* (the last one before the raise included), exactly one success entry iff the
\* successful attempt is not the first, and none at all when the first attempt
\* succeeds; the delay is taken once after each failed attempt that another
\* attempt follows: k times in a run of k failures that ends in success, N - 1
\* times when all N attempts fail, never after the final failure or a success.
C10_LogAndSleep ==
    (eh.pc # "idle" /\ eh.retries >= 1) =>
        LET h      == eh.history
            N      == eh.retries
            sleeps == Count(eh.trace, "sleep")
        IN  /\ LogCount(eh.log, "error") = Cardinality(Failed(h))
            /\ \A i \in Failed(h) :
                    Cardinality({j \in DOMAIN eh.log :
                        eh.log[j].kind = "error" /\ eh.log[j].attempt = i}) = 1
            /\ LogCount(eh.log, "success") = (IF \E i \in DOMAIN h : i > 1 /\ h[i].ok THEN 1 ELSE 0)
            /\ Len(eh.log) = LogCount(eh.log, "error") + LogCount(eh.log, "success")
            /\ (h # <<>> /\ h[1].ok) => eh.log = <<>>
            /\ eh.pc = "returned" => sleeps = Cardinality(Failed(h))
            /\ eh.pc = "raised" => sleeps = N - 1
            /\ eh.slept = sleeps * DefaultDelay
            /\ \A j \in DOMAIN eh.trace :
                    eh.trace[j] = "sleep" =>
                        /\ j > 2 /\ eh.trace[j - 1] = "log_error" /\ eh.trace[j - 2] = "call"
                        /\ IF j < Len(eh.trace) THEN eh.trace[j + 1] = "call" ELSE eh.pc = "loop"

\* Two failures, two sleeps, then a success that is logged.
C10_Witness ==
    /\ eh.pc = "returned"
    /\ eh.retries = DefaultRetries
    /\ Len(eh.history) = 3
    /\ LogCount(eh.log, "error") = 2
    /\ LogCount(eh.log, "success") = 1
    /\ Count(eh.trace, "sleep") = 2

-----------------------------------------------------------------------------
(* Claims about the media classification *)

Formats(category) ==
    IF category = "audio" THEN choices.audio_formats
    ELSE IF category = "image" THEN choices.image_formats
    ELSE choices.video_formats

\* A path is classified in a category iff it is an existing regular file whose
\* normalized format is in the category's configured list.
Classified(category, p) ==
    /\ Kind(pre, p) = "file"
    /\ get_file_format(p) \in Range(Formats(category))

HasOp(category) ==
    IF category = "audio" THEN "has_audio"
    ELSE IF category = "image" THEN "has_image" ELSE "has_video"

AreOp(category) ==
    IF category = "audio" THEN "are_audios"
    ELSE IF category = "image" THEN "are_images" ELSE "are_videos"

\* C3: for every category, has_<category>(paths) returns whether the list is
\* non-empty and some member is classified in the category, are_<category>(paths)
\* returns whether the list is non-empty and every member is; neither raises, and
\* both return false on the empty list.
C3_BatchPredicates ==
    \A category \in {"audio", "image", "video"} :
        /\ call.op = HasOp(category) =>
             /\ ~ret.raised
             /\ ret.value = (/\ call.args[1] # <<>>
                             /\ \E i \in DOMAIN call.args[1] : Classified(category, call.args[1][i]))
        /\ call.op = AreOp(category) =>
             /\ ~ret.raised
             /\ ret.value = (/\ call.args[1] # <<>>
                             /\ \A i \in DOMAIN call.args[1] : Classified(category, call.args[1][i]))

\* The k-th smallest element of a set of indices.
Kth(I, k) == CHOOSE i \in I : Cardinality({j \in I : j < i}) = k - 1

\* `result` is `paths` with exactly the members classified in `category` kept,
\* each occurrence at its place.
IsFilterOf(result, paths, category) ==
    LET I == {i \in DOMAIN paths : Classified(category, paths[i])}
    IN  /\ Len(result) = Cardinality(I)
        /\ \A k \in DOMAIN result : result[k] = paths[Kth(I, k)]

\* C9: filter_image_paths(paths) and filter_audio_paths(paths) return the
\* subsequence of paths, in the original order, of the members that are existing
\* regular files whose normalized format is in the image (audio) list:
\* directories and missing paths are dropped, matching duplicates are kept, and
\* the empty list yields the empty list.
C9_FilterPaths ==
    /\ call.op = "filter_image_paths" =>
         /\ ~ret.raised
         /\ IsFilterOf(ret.value, call.args[1], "image")
         /\ \A k \in DOMAIN ret.value : Kind(pre, ret.value[k]) = "file"
         /\ call.args[1] = <<>> => ret.value = <<>>
    /\ call.op = "filter_audio_paths" =>
         /\ ~ret.raised
         /\ IsFilterOf(ret.value, call.args[1], "audio")
         /\ \A k \in DOMAIN ret.value : Kind(pre, ret.value[k]) = "file"
         /\ call.args[1] = <<>> => ret.value = <<>>

\* A directory named like an image is dropped and an upper-case .JPG file is kept
\* as jpeg.
C9_Witness ==
    /\ call.op = "filter_image_paths"
    /\ call.args[1] = <<d_png, b_JPG>>
    /\ jpeg \in Range(choices.image_formats)
    /\ ret = Return(<<b_JPG>>)

-----------------------------------------------------------------------------
(* Directory and glob resolution *)

\* os.listdir: the names of the entries of a directory ("" is the working directory).
Entries(fsx, dir) == {basename(p) : p \in {q \in DOMAIN fsx : fsx[q] # "none" /\ dirname(q) = dir}}

\* The orders in which the OS may hand out a set of names.
RECURSIVE Orders(_)
Orders(S) == IF S = {} THEN {<<>>} ELSE UNION {{<<x>> \o o : o \in Orders(S \ {x})} : x \in S}

\* The comprehension hiding every entry that starts with an underscore.
RECURSIVE visible_paths_SingleUnderscore(_, _)
visible_paths_SingleUnderscore(directory_path, entries) ==
    IF entries = <<>> THEN <<>>
    ELSE (IF ~(startswith(Head(entries), <<".">>) \/ startswith(Head(entries), <<"_">>))
          THEN <<join(directory_path, Head(entries))>>
          ELSE <<>>)
         \o visible_paths_SingleUnderscore(directory_path, Tail(entries))

\* The list comprehension of resolve_file_paths over the sorted entries.
RECURSIVE visible_paths(_, _)
visible_paths(directory_path, entries) ==
    IF entries = <<>> THEN <<>>
    ELSE (IF ~(startswith(Head(entries), <<".">>) \/ startswith(Head(entries), <<"_", "_">>))
          THEN <<join(directory_path, Head(entries))>>
          ELSE <<>>)
         \o visible_paths(directory_path, Tail(entries))

\* `listdir` is the outcome of each invocation of os.listdir.
resolve_file_paths(fsx, directory_path, listdir) ==
    IF ~is_directory(fsx, directory_path) THEN [result |-> Return(<<>>), os |-> <<>>]
    ELSE LET entries == _error_handler(0, DefaultRetries, listdir)
         IN  [result |-> IF entries.result.raised THEN entries.result
                         ELSE Return(visible_paths(directory_path, sorted(entries.result.value))),
              os     |-> Invocations("listdir", <<directory_path>>, listdir, entries.calls)]

\* in_directory without the test that the path itself is no directory.
in_directory_ParentOnly(fsx, file_path) ==
    IF file_path = <<>> THEN FALSE
    ELSE LET dir_path == dirname(file_path)
         IN  dir_path # <<>> /\ is_directory(fsx, dir_path)

in_directory(fsx, file_path) ==
    IF file_path = <<>> THEN FALSE
    ELSE LET dir_path == dirname(file_path)
         IN  dir_path # <<>> /\ ~is_directory(fsx, file_path) /\ is_directory(fsx, dir_path)

\* `glob` is the outcome of each invocation of glob.glob.
resolve_file_pattern(fsx, file_pattern, glob) ==
    IF in_directory(fsx, file_pattern)
    THEN LET matches == _error_handler(0, DefaultRetries, glob)
         IN  [result |-> IF matches.result.raised THEN matches.result
                         ELSE Return(sorted(matches.result.value)),
              os     |-> Invocations("glob", <<file_pattern>>, glob, matches.calls)]
    ELSE [result |-> Return(<<>>), os |-> <<>>]

\* fnmatch of a name against a pattern whose only special character is "*".
RECURSIVE fnmatch(_, _)
fnmatch(name, pat) ==
    IF pat = <<>> THEN name = <<>>
    ELSE IF Head(pat) = "*"
    THEN fnmatch(name, Tail(pat)) \/ (name # <<>> /\ fnmatch(Tail(name), pat))
    ELSE name # <<>> /\ Head(name) = Head(pat) /\ fnmatch(Tail(name), Tail(pat))

has_magic(s) == "*" \in Range(s)

\* What glob.glob matches: the pattern itself when it has no wildcard and exists;
\* otherwise the entries of the pattern's directory that match its last component,
\* hidden entries only for a pattern that starts with a dot.
glob_matches(fsx, pathname) ==
    IF ~has_magic(pathname)
    THEN IF pathname # <<>> /\ Kind(fsx, pathname) # "none" THEN {pathname} ELSE {}
    ELSE IF dirname(pathname) # <<>> /\ Kind(fsx, dirname(pathname)) # "dir" THEN {}
    ELSE {join(dirname(pathname), name) :
            name \in {n \in Entries(fsx, dirname(pathname)) :
                        /\ fnmatch(n, basename(pathname))
                        /\ (startswith(n, <<".">>) => startswith(basename(pathname), <<".">>))}}

dir_d == <<"d">>

dir_x == <<"x">>

c_txt == <<"c", ".", "t", "x", "t">>

d_git == <<"d", "/", ".", "g", "i", "t">>

d_pycache == <<"d", "/", "_", "_", "p", "y", "c", "a", "c", "h", "e", "_", "_">>

d_x == <<"d", "/", "_", "x">>

d_a_txt == <<"d", "/", "a", ".", "t", "x", "t">>

d_b_txt == <<"d", "/", "b", ".", "t", "x", "t">>

\* The filesystems the resolution is run on: d missing, a file, or a directory
\* with any of its entries present; c.txt beside it.
ResolveFsStates ==
    { f \in [{dir_d, c_txt, d_git, d_pycache, d_x, d_a_txt, d_b_txt} -> {"none", "file", "dir"}] :
        /\ f[c_txt] # "dir"
        /\ f[d_git] # "file"
        /\ f[d_pycache] # "file"
        /\ f[d_x] # "dir"
        /\ f[d_b_txt] # "dir"
        /\ f[dir_d] # "dir" => \A p \in {d_git, d_pycache, d_x, d_a_txt, d_b_txt} : f[p] = "none" }

ResolveDirs == {<<>>, dir_d, dir_x, c_txt, d_git}

ResolvePatterns ==
    { <<>>, dir_d, c_txt, d_a_txt, d_git,
      <<"*", ".", "t", "x", "t">>,
      <<"d", "/", "*", ".", "t", "x", "t">>,
      <<"d", "/", "*">>,
      <<"d", "/", ".", "*">>,
      <<"x", "/", "*", ".", "t", "x", "t">> }

InitResolve ==
    /\ fs \in ResolveFsStates
    /\ choices = NoChoices
    /\ pre = fs
    /\ call = NoCall
    /\ ret = Return(None)
    /\ os = <<>>
    /\ prev = NoPrev
    /\ eh = EhIdle
    /\ th = <<>>

Resolve(op, args, outcome) ==
    /\ call = NoCall
    /\ call' = [op |-> op, args |-> args]
    /\ ret' = outcome.result
    /\ os' = outcome.os
    /\ pre' = fs
    /\ UNCHANGED <<fs, choices, prev, eh, th>>

ResolveFilePaths ==
    \E directory_path \in ResolveDirs, faults \in 0..DefaultRetries :
        \E order \in Orders(Entries(fs, directory_path)) :
            Resolve("resolve_file_paths", <<directory_path>>,
                    resolve_file_paths(fs, directory_path,
                                       FaultyOutcomes(faults, [ok |-> TRUE, value |-> order])))

ResolveFilePattern ==
    \E file_pattern \in ResolvePatterns, faults \in 0..DefaultRetries :
        \E order \in Orders(glob_matches(fs, file_pattern)) :
            Resolve("resolve_file_pattern", <<file_pattern>>,
                    resolve_file_pattern(fs, file_pattern,
                                         FaultyOutcomes(faults, [ok |-> TRUE, value |-> order])))

NextResolve ==
    \/ ResolveFilePaths
    \/ ResolveFilePattern

SpecResolve == InitResolve /\ [][NextResolve]_vars

-----------------------------------------------------------------------------
(* Claims about the resolution *)

\* Some invocation of the primitive succeeded: the wrapper had a result to return.
PrimitiveSucceeded == os # <<>> /\ os[Len(os)].ok

Hidden(name) ==
    \/ name[1] = "."
    \/ Len(name) >= 2 /\ name[1] = "_" /\ name[2] = "_"

\* The name an element of the result was joined from.
EntryName(directory_path, path) == SubSeq(path, Len(directory_path) + 2, Len(path))

\* C7: resolve_file_paths(dir) returns the empty list when dir is not a directory;
\* otherwise (the listing obtained) exactly the entries of dir whose names start
\* with neither "." nor "__", each as dir joined with the name, in ascending
\* order of the names, none omitted and none twice.
C7_ResolveFilePaths ==
    call.op = "resolve_file_paths" =>
        LET dir   == call.args[1]
            names == {n \in Entries(pre, dir) : ~Hidden(n)}
        IN  /\ (dir = <<>> \/ Kind(pre, dir) # "dir") => ret = Return(<<>>) /\ os = <<>>
            /\ (dir # <<>> /\ Kind(pre, dir) = "dir" /\ PrimitiveSucceeded) =>
                 /\ ~ret.raised
                 /\ Len(ret.value) = Cardinality(names)
                 /\ Range(ret.value) = {dir \o <<"/">> \o n : n \in names}
                 /\ \A i, j \in DOMAIN ret.value :
                        i < j => str_lt(EntryName(dir, ret.value[i]), EntryName(dir, ret.value[j]))

\* The directory holds .git, __pycache__, a.txt and b.txt, the OS lists b.txt
\* before a.txt, and the result is d/a.txt, d/b.txt.
C7_Witness ==
    /\ call.op = "resolve_file_paths"
    /\ call.args[1] = dir_d
    /\ Entries(pre, dir_d) = {basename(d_git), basename(d_pycache), basename(d_a_txt), basename(d_b_txt)}
    /\ PrimitiveSucceeded
    /\ \E i, j \in DOMAIN os[Len(os)].value :
            i < j /\ os[Len(os)].value[i] = basename(d_b_txt) /\ os[Len(os)].value[j] = basename(d_a_txt)
    /\ ret = Return(<<d_a_txt, d_b_txt>>)

\* The guard of resolve_file_pattern, spelled out on the filesystem.
InsideDirectory(pattern) ==
    /\ pattern # <<>>
    /\ dirname(pattern) # <<>>
    /\ Kind(pre, dirname(pattern)) = "dir"
    /\ Kind(pre, pattern) # "dir"

\* C8: resolve_file_pattern(pattern) returns a non-empty list only if the pattern
\* is non-empty, its literal parent directory string is non-empty and an existing
\* directory, and the pattern taken literally is no directory; when that fails it
\* returns the empty list and glob is not invoked, whatever glob would match; when
\* it holds the result is what glob returned, sorted.
C8_ResolveFilePattern ==
    call.op = "resolve_file_pattern" =>
        LET pattern == call.args[1]
        IN  /\ (~ret.raised /\ ret.value # <<>>) => InsideDirectory(pattern)
            /\ ~InsideDirectory(pattern) => ret = Return(<<>>) /\ os = <<>>
            /\ (InsideDirectory(pattern) /\ PrimitiveSucceeded) =>
                 /\ ~ret.raised
                 /\ \A i \in DOMAIN os : os[i].prim = "glob" /\ os[i].args = <<pattern>>
                 /\ Len(ret.value) = Len(os[Len(os)].value)
                 /\ Range(ret.value) = Range(os[Len(os)].value)
                 /\ Range(ret.value) = glob_matches(pre, pattern)
                 /\ \A i, j \in DOMAIN ret.value : i < j => ~str_lt(ret.value[j], ret.value[i])

\* d/* matches several entries, glob hands them out unsorted, the result is sorted.
C8_Witness ==
    /\ call.op = "resolve_file_pattern"
    /\ InsideDirectory(call.args[1])
    /\ PrimitiveSucceeded
    /\ Len(ret.value) >= 3
    /\ ret.value # os[Len(os)].value

-----------------------------------------------------------------------------
(* The OS primitives behind the mutating operations.  Each gives the outcome of *)
(* one invocation on a filesystem and the filesystem it leaves.                 *)

Write(fsx, p, kind) == [q \in DOMAIN fsx \cup {p} |-> IF q = p THEN kind ELSE fsx[q]]

Done(fsx) == [ok |-> TRUE, value |-> None, fs |-> fsx]

Fail(fsx, e) == [ok |-> FALSE, value |-> e, fs |-> fsx]

\* Opening a path for writing, as shutil.copyfile does with the destination.
CreateFile(fsx, p) ==
    IF p = <<>> THEN Fail(fsx, "FileNotFoundError")
    ELSE IF Kind(fsx, p) = "dir" THEN Fail(fsx, "IsADirectoryError")
    ELSE IF dirname(p) # <<>> /\ Kind(fsx, dirname(p)) = "none" THEN Fail(fsx, "FileNotFoundError")
    ELSE IF dirname(p) # <<>> /\ Kind(fsx, dirname(p)) = "file" THEN Fail(fsx, "NotADirectoryError")
    ELSE Done(Write(fsx, p, "file"))

\* os.remove(path, *, dir_fd = None) takes one positional argument: invoked with
\* more it raises TypeError before it looks at the filesystem.
os_remove(fsx, args) ==
    IF Len(args) # 1 THEN Fail(fsx, "TypeError")
    ELSE IF Kind(fsx, args[1]) = "file" THEN Done(Write(fsx, args[1], "none"))
    ELSE IF Kind(fsx, args[1]) = "dir" THEN Fail(fsx, "IsADirectoryError")
    ELSE Fail(fsx, "FileNotFoundError")

shutil_copy(fsx, src, dst) ==
    LET real_dst == IF Kind(fsx, dst) = "dir" THEN join(dst, basename(src)) ELSE dst
    IN  IF Kind(fsx, src) = "file" /\ real_dst = src THEN Fail(fsx, "SameFileError")
        ELSE IF Kind(fsx, src) = "none" THEN Fail(fsx, "FileNotFoundError")
        ELSE IF Kind(fsx, src) = "dir" THEN Fail(fsx, "IsADirectoryError")
        ELSE CreateFile(fsx, real_dst)

\* shutil.move of a regular file: os.rename, and when that fails a copy to the
\* destination followed by the removal of the source.
shutil_move(fsx, src, dst) ==
    LET real_dst == IF Kind(fsx, dst) = "dir" THEN join(dst, basename(src)) ELSE dst
    IN  IF Kind(fsx, src) # "file" THEN Fail(fsx, "FileNotFoundError")
        ELSE IF Kind(fsx, dst) = "dir" /\ Kind(fsx, real_dst) # "none" THEN Fail(fsx, "Error")
        ELSE IF real_dst = src THEN Done(fsx)
        ELSE LET copied == CreateFile(fsx, real_dst)
             IN  IF copied.ok THEN Done(Write(copied.fs, src, "none")) ELSE copied

os_mkdir(fsx, path) ==
    IF path = <<>> THEN Fail(fsx, "FileNotFoundError")
    ELSE IF Kind(fsx, path) # "none" THEN Fail(fsx, "FileExistsError")
    ELSE IF dirname(path) # <<>> /\ Kind(fsx, dirname(path)) = "none" THEN Fail(fsx, "FileNotFoundError")
    ELSE IF dirname(path) # <<>> /\ Kind(fsx, dirname(path)) = "file" THEN Fail(fsx, "NotADirectoryError")
    ELSE Done(Write(fsx, path, "dir"))

\* os.makedirs that does not forgive an existing directory (exist_ok = False).
RECURSIVE os_makedirs_NotExistOk(_, _)
os_makedirs_NotExistOk(fsx, name) ==
    LET parts  == IF split(name)[2] = <<>> THEN split(split(name)[1]) ELSE split(name)
        head   == parts[1]
        tail   == parts[2]
        parent == IF head # <<>> /\ tail # <<>> /\ Kind(fsx, head) = "none"
                  THEN os_makedirs_NotExistOk(fsx, head)
                  ELSE Done(fsx)
    IN  IF ~parent.ok /\ parent.value # "FileExistsError" THEN parent
        ELSE os_mkdir(parent.fs, name)

\* os.makedirs(name, exist_ok = True): the missing ancestors first, a
\* FileExistsError of theirs passed over, then the directory itself, an error of
\* mkdir forgiven when the directory is there.
RECURSIVE os_makedirs(_, _)
os_makedirs(fsx, name) ==
    LET parts  == IF split(name)[2] = <<>> THEN split(split(name)[1]) ELSE split(name)
        head   == parts[1]
        tail   == parts[2]
        parent == IF head # <<>> /\ tail # <<>> /\ Kind(fsx, head) = "none"
                  THEN os_makedirs(fsx, head)
                  ELSE Done(fsx)
    IN  IF ~parent.ok /\ parent.value # "FileExistsError" THEN parent
        ELSE LET made == os_mkdir(parent.fs, name)
             IN  IF made.ok \/ Kind(parent.fs, name) = "dir" THEN Done(made.fs) ELSE made

\* shutil.rmtree(path, ignore_errors = True): the tree goes, or (`denied`) the OS
\* refuses and the error is ignored.
shutil_rmtree(fsx, path, denied) ==
    IF denied \/ Kind(fsx, path) # "dir" THEN Done(fsx)
    ELSE Done([q \in DOMAIN fsx |->
                IF q = path \/ startswith(q, path \o <<"/">>) THEN "none" ELSE fsx[q]])

-----------------------------------------------------------------------------
(* The mutating operations: [result, fs, os] of one call on filesystem fsx, the *)
(* first `faults` invocations of the primitive failing for a passing reason.    *)

\* _error_handler(operation, ...) on the primitive whose effect is `effect`.
Handled(fsx, prim, args, faults, effect) ==
    LET outcomes == FaultyOutcomes(faults, [ok |-> effect.ok, value |-> effect.value])
        h        == _error_handler(0, DefaultRetries, outcomes)
    IN  [result |-> h.result,
         fs     |-> IF h.result.raised THEN fsx ELSE effect.fs,
         os     |-> Invocations(prim, args, outcomes, h.calls)]

Unhandled(fsx, value) == [result |-> Return(value), fs |-> fsx, os |-> <<>>]

\* operation(src, dest) through the wrapper, then success_condition(), which is
\* given as its value on the filesystem the operation leaves.
_file_operation(fsx, prim, args, faults, effect, success_condition) ==
    LET h == Handled(fsx, prim, args, faults, effect)
    IN  IF h.result.raised THEN h
        ELSE [result |-> Return(success_condition), fs |-> h.fs, os |-> h.os]

\* copy_file without its precondition.
copy_file_NoPrecondition(fsx, file_path, move_path, faults) ==
    LET copied == shutil_copy(fsx, file_path, move_path)
    IN  _file_operation(fsx, "copy", <<file_path, move_path>>, faults, copied,
                        is_file(copied.fs, move_path))

copy_file(fsx, file_path, move_path, faults) ==
    IF is_file(fsx, file_path)
    THEN LET copied == shutil_copy(fsx, file_path, move_path)
         IN  _file_operation(fsx, "copy", <<file_path, move_path>>, faults, copied,
                             is_file(copied.fs, move_path))
    ELSE Unhandled(fsx, FALSE)

move_file(fsx, file_path, move_path, faults) ==
    IF is_file(fsx, file_path)
    THEN LET moved == shutil_move(fsx, file_path, move_path)
         IN  _file_operation(fsx, "move", <<file_path, move_path>>, faults, moved,
                             ~is_file(moved.fs, file_path) /\ is_file(moved.fs, move_path))
    ELSE Unhandled(fsx, FALSE)

\* dest is None: the wrapper invokes os.remove(file_path, None).
remove_file(fsx, file_path, faults) ==
    IF is_file(fsx, file_path)
    THEN LET removed == os_remove(fsx, <<file_path, None>>)
         IN  _file_operation(fsx, "remove", <<file_path, None>>, faults, removed,
                             ~is_file(removed.fs, file_path))
    ELSE Unhandled(fsx, FALSE)

create_directory(fsx, directory_path, faults) ==
    IF directory_path = <<>> \/ is_file(fsx, directory_path) THEN Unhandled(fsx, FALSE)
    ELSE LET h == Handled(fsx, "makedirs", <<directory_path>>, faults, os_makedirs(fsx, directory_path))
         IN  IF h.result.raised THEN h
             ELSE [result |-> Return(is_directory(h.fs, directory_path)), fs |-> h.fs, os |-> h.os]

remove_directory(fsx, directory_path, denied) ==
    IF ~is_directory(fsx, directory_path) THEN Unhandled(fsx, FALSE)
    ELSE LET h == Handled(fsx, "rmtree", <<directory_path>>, 0, shutil_rmtree(fsx, directory_path, denied))
         IN  [result |-> Return(~is_directory(h.fs, directory_path)), fs |-> h.fs, os |-> h.os]

-----------------------------------------------------------------------------
(* A caller making one call of a mutating operation after another *)

p_a == <<"a">>

p_d == <<"d">>

p_da == <<"d", "/", "a">>

p_ds == <<"d", "/", "s">>

p_xa == <<"x", "/", "a">>

Nodes == {p_a, p_d, p_da, p_ds}

PathInputs == Nodes \cup {<<>>, p_xa}

Init ==
    /\ fs = [p \in Nodes |-> IF p = p_a THEN "file" ELSE "none"]
    /\ choices = NoChoices
    /\ pre = fs
    /\ call = NoCall
    /\ ret = Return(None)
    /\ os = <<>>
    /\ prev = NoPrev
    /\ eh = EhIdle
    /\ th = <<>>

\* The call is made; its effect stays inside the modelled part of the filesystem.
Mutate(op, args, outcome) ==
    /\ DOMAIN outcome.fs = Nodes
    /\ call' = [op |-> op, args |-> args]
    /\ ret' = outcome.result
    /\ fs' = outcome.fs
    /\ os' = outcome.os
    /\ pre' = fs
    /\ prev' = IF call.op = op /\ call.args = args
               THEN [op |-> call.op, args |-> call.args, ret |-> ret]
               ELSE NoPrev
    /\ UNCHANGED <<choices, eh, th>>

CopyFile ==
    \E file_path \in PathInputs, move_path \in PathInputs, faults \in 0..DefaultRetries :
        Mutate("copy_file", <<file_path, move_path>>, copy_file(fs, file_path, move_path, faults))

MoveFile ==
    \E file_path \in PathInputs, move_path \in PathInputs, faults \in 0..DefaultRetries :
        Mutate("move_file", <<file_path, move_path>>, move_file(fs, file_path, move_path, faults))

RemoveFile ==
    \E file_path \in PathInputs, faults \in 0..DefaultRetries :
        Mutate("remove_file", <<file_path>>, remove_file(fs, file_path, faults))

CreateDirectory ==
    \E directory_path \in PathInputs, faults \in 0..DefaultRetries :
        Mutate("create_directory", <<directory_path>>, create_directory(fs, directory_path, faults))

RemoveDirectory ==
    \E directory_path \in PathInputs, denied \in BOOLEAN :
        Mutate("remove_directory", <<directory_path>>, remove_directory(fs, directory_path, denied))

Next ==
    \/ CopyFile
    \/ MoveFile
    \/ RemoveFile
    \/ CreateDirectory
    \/ RemoveDirectory

Spec == Init /\ [][Next]_vars

-----------------------------------------------------------------------------
(* Claims about the mutating operations *)

\* The invocations of the primitive that the OS failed for a passing reason.
PassingFaults == {i \in DOMAIN os : ~os[i].ok /\ os[i].value = "OSError"}

\* C2: remove_file(path) on a regular file whose deletion the OS would perform
\* returns true without raising and leaves path no file; on a path that is not a
\* file it returns false and invokes no OS delete.
C2_RemoveFile ==
    call.op = "remove_file" =>
        LET path == call.args[1]
        IN  /\ (path # <<>> /\ Kind(pre, path) = "file" /\ PassingFaults = {}) =>
                 /\ ~ret.raised
                 /\ ret.value = TRUE
                 /\ Kind(fs, path) # "file"
            /\ (path = <<>> \/ Kind(pre, path) # "file") =>
                 /\ ~ret.raised
                 /\ ret.value = FALSE
                 /\ os = <<>>
                 /\ fs = pre

\* C4: copy_file(src, dest) with src no regular file (missing, the empty string
\* or a directory) returns false, invokes no OS copy and leaves the filesystem
\* as it was: dest is a file afterwards iff it was one before.
C4_CopyFileNoSource ==
    (call.op = "copy_file" /\ (call.args[1] = <<>> \/ Kind(pre, call.args[1]) # "file")) =>
        /\ ~ret.raised
        /\ ret.value = FALSE
        /\ os = <<>>
        /\ fs = pre
        /\ (call.args[2] # <<>> /\ Kind(fs, call.args[2]) = "file")
             <=> (call.args[2] # <<>> /\ Kind(pre, call.args[2]) = "file")

\* The source is a directory, the destination an existing directory's missing entry.
C4_Witness ==
    /\ call.op = "copy_file"
    /\ call.args = <<p_ds, p_da>>
    /\ Kind(pre, p_ds) = "dir"
    /\ Kind(pre, p_da) = "none"
    /\ ret = Return(FALSE)
    /\ Kind(fs, p_da) = "none"

RECURSIVE Ancestors(_)
Ancestors(p) == IF dirname(p) = <<>> \/ dirname(p) = p THEN {} ELSE {dirname(p)} \cup Ancestors(dirname(p))

\* The OS can create the directory tree of p: nothing on the way is a file.
Creatable(fsx, p) ==
    /\ p # <<>>
    /\ Kind(fsx, p) # "file"
    /\ \A q \in Ancestors(p) : Kind(fsx, q) # "file"

\* C5: for a non-empty path that is no file and whose tree the OS can create,
\* create_directory(path) returns true without raising and the path is a
\* directory; called again right after, it returns true again, does not raise,
\* and leaves the filesystem as the first call left it; for the empty path or a
\* path that is a file it returns false and invokes no OS mkdir.
C5_CreateDirectoryIdempotent ==
    call.op = "create_directory" =>
        LET path == call.args[1]
        IN  /\ (path = <<>> \/ Kind(pre, path) = "file") =>
                 /\ ~ret.raised
                 /\ ret.value = FALSE
                 /\ os = <<>>
                 /\ fs = pre
            /\ (Creatable(pre, path) /\ Cardinality(PassingFaults) < DefaultRetries) =>
                 /\ ~ret.raised
                 /\ ret.value = TRUE
                 /\ Kind(fs, path) = "dir"
            /\ (/\ prev.op = "create_directory"
                /\ ~prev.ret.raised
                /\ prev.ret.value = TRUE
                /\ Cardinality(PassingFaults) < DefaultRetries) =>
                 /\ ~ret.raised
                 /\ ret.value = TRUE
                 /\ fs = pre

\* The second of two calls create_directory("d/s") in a row, the first of which
\* returned true.
C5_Witness ==
    /\ call.op = "create_directory"
    /\ call.args = <<p_ds>>
    /\ prev.op = "create_directory"
    /\ prev.ret = Return(TRUE)
    /\ os # <<>>
    /\ ret = Return(TRUE)
    /\ fs = pre

-----------------------------------------------------------------------------
(* Threads calling create_directory with no coordination.  A thread takes one   *)
(* step at a time: the is_file check, each test and each mkdir that os.makedirs *)
(* makes, the is_directory check.  stack holds the names of the nested          *)
(* os.makedirs calls, the innermost first.                                      *)

NumThreads == 2

Threads == 1..NumThreads

ConcNodes == {p_d, p_ds}

ConcPaths == {<<>>, p_d, p_ds}

ConcFsStates ==
    {f \in [ConcNodes -> {"none", "file", "dir"}] : f[p_d] # "dir" => f[p_ds] = "none"}

InitConc ==
    /\ fs \in ConcFsStates
    /\ choices = NoChoices
    /\ pre = fs
    /\ call = NoCall
    /\ ret = Return(None)
    /\ os = <<>>
    /\ prev = NoPrev
    /\ eh = EhIdle
    /\ th \in [Threads -> [pc : {"start"}, path : ConcPaths, stack : {<<>>}, attempt : {0},
                           err : {"none"}, ret : {Return(None)}]]

ThreadStep(t, next, fsx) ==
    /\ th' = [th EXCEPT ![t] = next]
    /\ fs' = fsx
    /\ UNCHANGED <<choices, pre, call, ret, os, prev, eh>>

\* if not directory_path or is_file(directory_path): return False
CdCheck(t) ==
    /\ th[t].pc = "start"
    /\ ThreadStep(t,
                  IF th[t].path = <<>> \/ is_file(fs, th[t].path)
                  THEN [th[t] EXCEPT !.pc = "done", !.ret = Return(FALSE)]
                  ELSE [th[t] EXCEPT !.pc = "makedirs", !.stack = <<th[t].path>>],
                  fs)

\* os.makedirs(name): if the head is missing, os.makedirs(head) first.
MdEnter(t) ==
    /\ th[t].pc = "makedirs"
    /\ LET name  == Head(th[t].stack)
           parts == IF split(name)[2] = <<>> THEN split(split(name)[1]) ELSE split(name)
       IN  ThreadStep(t,
                      IF parts[1] # <<>> /\ parts[2] # <<>> /\ Kind(fs, parts[1]) = "none"
                      THEN [th[t] EXCEPT !.stack = <<parts[1]>> \o th[t].stack]
                      ELSE [th[t] EXCEPT !.pc = "mkdir"],
                      fs)

\* The innermost os.makedirs returns: its caller goes on to its own mkdir, the
\* outermost one hands over to the is_directory check.
Returned(thread) ==
    IF Len(thread.stack) > 1
    THEN [thread EXCEPT !.stack = Tail(thread.stack), !.pc = "mkdir"]
    ELSE [thread EXCEPT !.stack = <<>>, !.pc = "is_directory"]

\* mkdir(name)
MdMkdir(t) ==
    /\ th[t].pc = "mkdir"
    /\ LET made == os_mkdir(fs, Head(th[t].stack))
       IN  /\ DOMAIN made.fs = ConcNodes
           /\ ThreadStep(t,
                         IF made.ok THEN Returned(th[t])
                         ELSE [th[t] EXCEPT !.pc = "except", !.err = made.value],
                         made.fs)

\* The exception leaves the innermost os.makedirs: the caller passes over a
\* FileExistsError and lets anything else through, up to the retry wrapper, which
\* starts os.makedirs again or raises after the last attempt.
RECURSIVE Raised(_)
Raised(thread) ==
    IF Len(thread.stack) > 1
    THEN IF thread.err = "FileExistsError"
         THEN [thread EXCEPT !.stack = Tail(thread.stack), !.pc = "mkdir"]
         ELSE Raised([thread EXCEPT !.stack = Tail(thread.stack)])
    ELSE LET step == Attempt(thread.attempt, DefaultRetries, DefaultDelay,
                             [ok |-> FALSE, value |-> thread.err])
         IN  IF step.pc = "loop"
             THEN [thread EXCEPT !.pc = "makedirs", !.stack = <<thread.path>>,
                                 !.attempt = thread.attempt + 1]
             ELSE [thread EXCEPT !.pc = "done", !.stack = <<>>, !.ret = step.result]

\* MdExcept raising whatever mkdir raised (exist_ok = False).
MdExcept_NotExistOk(t) ==
    /\ th[t].pc = "except"
    /\ ThreadStep(t, Raised(th[t]), fs)

\* except OSError: if not exist_ok or not path.isdir(name): raise
MdExcept(t) ==
    /\ th[t].pc = "except"
    /\ ThreadStep(t,
                  IF is_directory(fs, Head(th[t].stack)) THEN Returned(th[t]) ELSE Raised(th[t]),
                  fs)

\* return is_directory(directory_path)
CdIsDirectory(t) ==
    /\ th[t].pc = "is_directory"
    /\ ThreadStep(t,
                  [th[t] EXCEPT !.pc = "done", !.ret = Return(is_directory(fs, th[t].path))],
                  fs)

NextConc ==
    \E t \in Threads :
        \/ CdCheck(t)
        \/ MdEnter(t)
        \/ MdMkdir(t)
        \/ MdExcept(t)
        \/ CdIsDirectory(t)

SpecConc == InitConc /\ [][NextConc]_vars

\* C6: in every interleaving of the steps of threads calling create_directory,
\* nobody else touching the filesystem, every call on a creatable path returns
\* true, none raises (no exception even reaches the retry wrapper), and in the
\* final state the path is a directory.
C6_ConcurrentCreateDirectory ==
    \A t \in DOMAIN th :
        Creatable(pre, th[t].path) =>
            /\ th[t].attempt = 0
            /\ ~th[t].ret.raised
            /\ th[t].pc = "done" => th[t].ret.value = TRUE /\ Kind(fs, th[t].path) = "dir"
            /\ (\A u \in DOMAIN th : th[u].pc = "done") => Kind(fs, th[t].path) = "dir"

\* Two threads made d/s from nothing at the same time; one of them found a
\* directory already made by the other when it called mkdir.
C6_Witness ==
    /\ th # <<>>
    /\ pre[p_d] = "none"
    /\ \A t \in DOMAIN th : th[t].path = p_ds /\ th[t].pc = "done" /\ th[t].ret = Return(TRUE)
    /\ \E t \in DOMAIN th : th[t].err = "FileExistsError"

=============================================================================
